---- MODULE Spec2Model ----
(***************************************************************************)
(* mqtt-simulator: the config parser and serializer of src/data.rs and the *)
(* watcher / sender / eventloop tasks and the select! of src/main.rs.      *)
(***************************************************************************)
EXTENDS Integers, Sequences, FiniteSets, TLC

(***************************************************************************)
(* Bounds of the model.                                                    *)
(***************************************************************************)
\* modification times the file system hands out: 1..MaxMtime (0 is UNIX_EPOCH)
MaxMtime == 2
\* snapshots the sender takes in one behaviour
MaxTicks == 2
\* a writer that fails does so at one of its first MaxFailAt write_all calls
MaxFailAt == 3

(***************************************************************************)
(* Program constants.                                                      *)
(***************************************************************************)
\* EventLoop::new(opts, 10): capacity of the bounded request channel
Cap == 10
\* sleep(Duration::from_secs(3)) after a connection error
BackoffSecs == 3

(***************************************************************************)
(* JSON documents.  A JSON value is a record tagged by k:                  *)
(*   [k |-> "bool", b], [k |-> "int", n], [k |-> "str", s],                *)
(*   [k |-> "arr", items], [k |-> "obj", f] with f a record of the fields, *)
(* and [k |-> "invalid"] is text that is not JSON at all.  A number is     *)
(* what serde_json reads it as: "int" when the literal is an integer that  *)
(* fits 64 bits, and else "float", the f64 m * 2^e, with lit telling       *)
(* whether the literal was written as an integer.                          *)
(***************************************************************************)
JBool(b) == [k |-> "bool", b |-> b]
JInt(n) == [k |-> "int", n |-> n]
JStr(s) == [k |-> "str", s |-> s]
JArr(items) == [k |-> "arr", items |-> items]
JObj(f) == [k |-> "obj", f |-> f]
JInvalid == [k |-> "invalid"]
\* a literal with a fraction or an exponent
JFloat(m, e) == [k |-> "float", m |-> m, e |-> e, lit |-> "decimal"]
\* an integer literal beyond u64::MAX (or below i64::MIN)
JBigInt(m, e) == [k |-> "float", m |-> m, e |-> e, lit |-> "integer"]

HasField(j, name) == j.k = "obj" /\ name \in DOMAIN j.f

(***************************************************************************)
(* data.rs: Endian, IntWidth and their defaults.                           *)
(***************************************************************************)
EndianNames == {"LittleEndian", "BigEndian"}

DefaultEndian == "BigEndian"

\* the variant names and their serde aliases
IntWidthOf(s) ==
    CASE s \in {"Eight", "8"} -> 8
      [] s \in {"Sixteen", "16"} -> 16
      [] s \in {"Thirtytwo", "32"} -> 32
      [] s \in {"Sixtyfour", "64"} -> 64
      [] OTHER -> 0

DefaultIntWidth == 64

\* a unit-variant enum deserializes from a string naming a variant
EndianOk(j) == HasField(j, "endian") => (j.f.endian.k = "str" /\ j.f.endian.s \in EndianNames)

IntWidthOk(j) == HasField(j, "width") => (j.f.width.k = "str" /\ IntWidthOf(j.f.width.s) # 0)

EndianField(j) == IF HasField(j, "endian") THEN j.f.endian.s ELSE DefaultEndian

IntWidthField(j) == IF HasField(j, "width") THEN IntWidthOf(j.f.width.s) ELSE DefaultIntWidth

(***************************************************************************)
(* data.rs: FloatWidth, StringEncoding and their defaults.                 *)
(***************************************************************************)
FloatWidthOf(s) ==
    CASE s \in {"Thirtytwo", "32"} -> 32
      [] s \in {"Sixtyfour", "64"} -> 64
      [] OTHER -> 0

DefaultFloatWidth == 64

EncodingNames == {"UTF8", "UTF16BE", "UTF16LE"}

DefaultEncoding == "UTF8"

FloatWidthOk(j) == HasField(j, "width") => (j.f.width.k = "str" /\ FloatWidthOf(j.f.width.s) # 0)

EncodingOk(j) ==
    HasField(j, "encoding") => (j.f.encoding.k = "str" /\ j.f.encoding.s \in EncodingNames)

FloatWidthField(j) ==
    IF HasField(j, "width") THEN FloatWidthOf(j.f.width.s) ELSE DefaultFloatWidth

EncodingField(j) == IF HasField(j, "encoding") THEN j.f.encoding.s ELSE DefaultEncoding

(***************************************************************************)
(* data.rs: the untagged enum Value.  The variants are tried in declared   *)
(* order and the first that deserializes wins; JSON takes what is left.    *)
(***************************************************************************)
IsBool(j) == j.k = "bool"

IsUInt(j) ==
    /\ HasField(j, "value")
    /\ j.f.value.k = "int"
    /\ j.f.value.n >= 0
    /\ EndianOk(j)
    /\ IntWidthOk(j)

IsInt(j) ==
    /\ HasField(j, "value")
    /\ j.f.value.k = "int"
    /\ EndianOk(j)
    /\ IntWidthOk(j)

\* an f64 takes any number: an integer is converted
IsFloat(j) ==
    /\ HasField(j, "value")
    /\ j.f.value.k \in {"int", "float"}
    /\ EndianOk(j)
    /\ FloatWidthOk(j)

IsString(j) ==
    /\ HasField(j, "value")
    /\ j.f.value.k = "str"
    /\ EncodingOk(j)

\* n as f64, for the n that is m * 2^e with a small m
RECURSIVE AsF64(_)
AsF64(n) ==
    IF n = 0 THEN [m |-> 0, e |-> 0]
    ELSE IF n % 2 = 0 THEN [AsF64(n \div 2) EXCEPT !.e = @ + 1]
    ELSE [m |-> n, e |-> 0]

FloatOf(num) == IF num.k = "int" THEN AsF64(num.n) ELSE [m |-> num.m, e |-> num.e]

RECURSIVE ParseValue(_)
\* an enum that declares Int before UInt
ParseValueIntFirst(j) ==
    IF IsBool(j) THEN [v |-> "Bool", b |-> j.b]
    ELSE IF IsInt(j) THEN
        [v |-> "Int", value |-> j.f.value.n, endian |-> EndianField(j), width |-> IntWidthField(j)]
    ELSE IF IsUInt(j) THEN
        [v |-> "UInt", value |-> j.f.value.n, endian |-> EndianField(j), width |-> IntWidthField(j)]
    ELSE IF IsFloat(j) THEN
        [v |-> "Float", value |-> FloatOf(j.f.value), endian |-> EndianField(j),
         width |-> FloatWidthField(j)]
    ELSE IF IsString(j) THEN
        [v |-> "String", value |-> j.f.value.s, encoding |-> EncodingField(j)]
    ELSE IF j.k = "arr" THEN
        [v |-> "Array", items |-> [i \in 1..Len(j.items) |-> ParseValue(j.items[i])]]
    ELSE [v |-> "JSON", doc |-> j]

ParseValue(j) ==
    IF IsBool(j) THEN [v |-> "Bool", b |-> j.b]
    ELSE IF IsUInt(j) THEN
        [v |-> "UInt", value |-> j.f.value.n, endian |-> EndianField(j), width |-> IntWidthField(j)]
    ELSE IF IsInt(j) THEN
        [v |-> "Int", value |-> j.f.value.n, endian |-> EndianField(j), width |-> IntWidthField(j)]
    ELSE IF IsFloat(j) THEN
        [v |-> "Float", value |-> FloatOf(j.f.value), endian |-> EndianField(j),
         width |-> FloatWidthField(j)]
    ELSE IF IsString(j) THEN
        [v |-> "String", value |-> j.f.value.s, encoding |-> EncodingField(j)]
    ELSE IF j.k = "arr" THEN
        [v |-> "Array", items |-> [i \in 1..Len(j.items) |-> ParseValue(j.items[i])]]
    ELSE [v |-> "JSON", doc |-> j]

(***************************************************************************)
(* data.rs: struct Data {topic: String, data: Value}, and                  *)
(* serde_json::from_str::<Vec<Data>> as main.rs calls it.                  *)
(***************************************************************************)
\* an object with a value a typed variant takes and an endian, width or
\* encoding that no variant takes: not a string, or not a name of the enum
BadField(j) ==
    /\ HasField(j, "value")
    /\ j.f.value.k \in {"int", "float", "str"}
    /\ \/ HasField(j, "endian") /\ ~(j.f.endian.k = "str" /\ j.f.endian.s \in EndianNames)
       \/ HasField(j, "width") /\ ~(j.f.width.k = "str" /\ IntWidthOf(j.f.width.s) # 0)
       \/ HasField(j, "encoding")
            /\ ~(j.f.encoding.k = "str" /\ j.f.encoding.s \in EncodingNames)

\* a Value without the catch-all: the error of the variant's field is the entry's
IsDataStrict(j) ==
    /\ HasField(j, "topic")
    /\ j.f.topic.k = "str"
    /\ HasField(j, "data")
    /\ ~BadField(j.f.data)

IsData(j) ==
    /\ HasField(j, "topic")
    /\ j.f.topic.k = "str"
    /\ HasField(j, "data")

ParseData(j) == [topic |-> j.f.topic.s, data |-> ParseValue(j.f.data)]

ParseErr == [ok |-> FALSE, vals |-> <<>>]

Parse(doc) ==
    IF doc.k # "arr" THEN ParseErr
    ELSE IF \E i \in 1..Len(doc.items) : ~IsData(doc.items[i]) THEN ParseErr
    ELSE [ok |-> TRUE, vals |-> [i \in 1..Len(doc.items) |-> ParseData(doc.items[i])]]

(***************************************************************************)
(* data.rs: Value::serialize<W: Write>.  A writer is a record: the bytes   *)
(* it has taken, the write_all calls made on it, the call that it fails    *)
(* (0: none, as for the Vec<u8> of the sender) and the last call's result. *)
(***************************************************************************)
Writer(failAt) == [bytes |-> <<>>, calls |-> 0, failAt |-> failAt, ok |-> TRUE]

\* let mut buf = Vec::new(): write_all on a Vec<u8> never fails
VecWriter == Writer(0)

\* writer.write_all(buf): Ok with buf appended, or Err with nothing taken
WriteAll(w, buf) ==
    IF w.calls + 1 = w.failAt
    THEN [w EXCEPT !.calls = @ + 1, !.ok = FALSE]
    ELSE [w EXCEPT !.calls = @ + 1, !.ok = TRUE, !.bytes = @ \o buf]

\* writer.write_all(b)? for each b of bufs in turn: the first Err returns
RECURSIVE WriteEach(_, _)
WriteEach(w, bufs) ==
    IF bufs = <<>> THEN [w EXCEPT !.ok = TRUE]
    ELSE LET r == WriteAll(w, Head(bufs))
         IN IF r.ok THEN WriteEach(r, Tail(bufs)) ELSE r

\* the n low bytes of v, least significant first; \div floors, so a negative
\* v yields its two's complement
RECURSIVE LeBytes(_, _)
LeBytes(v, n) == IF n = 0 THEN <<>> ELSE <<v % 256>> \o LeBytes(v \div 256, n - 1)

Reverse(s) == [i \in 1..Len(s) |-> s[Len(s) + 1 - i]]

\* to_ne_bytes() in every arm: the byte order of the machine, little-endian
IntBytesNative(value, endian, width) == LeBytes(value, width \div 8)

\* (value as iW / uW).to_le_bytes() / to_be_bytes(); width 8 ignores endian
IntBytes(value, endian, width) ==
    IF width = 8 THEN LeBytes(value, 1)
    ELSE IF endian = "LittleEndian" THEN LeBytes(value, width \div 8)
    ELSE Reverse(LeBytes(value, width \div 8))

RECURSIVE Concat(_)
Concat(ss) == IF Len(ss) = 0 THEN <<>> ELSE Head(ss) \o Concat(Tail(ss))

(***************************************************************************)
(* f64 and f32.  A float is m * 2^e with m an odd integer, or 0.           *)
(***************************************************************************)
Abs(n) == IF n < 0 THEN 0 - n ELSE n

RECURSIVE BitLen(_)
BitLen(n) == IF n = 0 THEN 0 ELSE 1 + BitLen(n \div 2)

\* the k low bits of n, most significant first
Bits(n, k) == [i \in 1..k |-> (n \div 2^(k - i)) % 2]

Zeros(k) == [i \in 1..k |-> 0]

\* the bytes of a sequence of bits, most significant byte and bit first
BytesOfBits(bits) ==
    [i \in 1..(Len(bits) \div 8) |->
        LET b(j) == bits[8 * (i - 1) + j]
        IN 128 * b(1) + 64 * b(2) + 32 * b(3) + 16 * b(4) + 8 * b(5) + 4 * b(6) + 2 * b(7) + b(8)]

\* IEEE 754 with expBits bits of exponent and fracBits of fraction, for the
\* values the format holds exactly as normal numbers, and 0
IeeeBits(x, expBits, fracBits) ==
    LET len == BitLen(Abs(x.m))
        bias == 2^(expBits - 1) - 1
        biased == x.e + len - 1 + bias
    IN CASE x.m = 0 -> Zeros(1 + expBits + fracBits)
         [] x.m # 0 /\ len - 1 <= fracBits /\ biased \in 1..(2 * bias) ->
              <<IF x.m < 0 THEN 1 ELSE 0>>
              \o Bits(biased, expBits)
              \o Bits(Abs(x.m), len - 1)
              \o Zeros(fracBits - (len - 1))

\* value.to_be_bytes(), (*value as f32).to_be_bytes() and their _le_ forms
FloatBytes(value, endian, width) ==
    LET be == BytesOfBits(IF width = 64 THEN IeeeBits(value, 11, 52) ELSE IeeeBits(value, 8, 23))
    IN IF endian = "LittleEndian" THEN Reverse(be) ELSE be

(***************************************************************************)
(* data.rs: StringEncoding::encode.  Text is a string of the model; the    *)
(* code points of the texts the model uses are tabled here.                *)
(***************************************************************************)
CodePoints(s) ==
    CASE s = "" -> <<>>
      [] s = "A" -> <<65>>
      [] s = "a" -> <<97>>
      [] s = "b" -> <<98>>
      [] s = "hi" -> <<104, 105>>
      [] s = "data" -> <<100, 97, 116, 97>>
      [] s = "encoding" -> <<101, 110, 99, 111, 100, 105, 110, 103>>
      [] s = "endian" -> <<101, 110, 100, 105, 97, 110>>
      [] s = "topic" -> <<116, 111, 112, 105, 99>>
      [] s = "value" -> <<118, 97, 108, 117, 101>>
      [] s = "width" -> <<119, 105, 100, 116, 104>>
      [] s = "8" -> <<56>>
      [] s = "16" -> <<49, 54>>
      [] s = "LittleEndian" -> <<76, 105, 116, 116, 108, 101, 69, 110, 100, 105, 97, 110>>
      [] s = "Middle" -> <<77, 105, 100, 100, 108, 101>>
      [] s = "UTF32" -> <<85, 84, 70, 51, 50>>

\* value.as_bytes(): the model's texts are ASCII, one byte per code point
Utf8(s) == CodePoints(s)

\* value.encode_utf16(): the model's texts are in the BMP, one unit per code point
Utf16(s) == CodePoints(s)

\* the buffers StringEncoding::encode hands to write_all, in order
EncodeWrites(value, encoding) ==
    CASE encoding = "UTF8" -> <<Utf8(value)>>
      [] encoding = "UTF16BE" ->
            <<<<254, 255>>>> \o [i \in 1..Len(Utf16(value)) |-> Reverse(LeBytes(Utf16(value)[i], 2))]
      [] encoding = "UTF16LE" ->
            <<<<255, 254>>>> \o [i \in 1..Len(Utf16(value)) |-> LeBytes(Utf16(value)[i], 2)]

(***************************************************************************)
(* serde_json::to_writer with the compact formatter: the buffers it hands  *)
(* to write_all, in order.  An object is a BTreeMap: its keys are sorted.  *)
(***************************************************************************)
RECURSIVE Digits(_)
Digits(n) == IF n < 10 THEN <<48 + n>> ELSE Digits(n \div 10) \o <<48 + (n % 10)>>

\* the keys of the model's objects, in the order of a BTreeMap<String, _>
KeyOrder == <<"data", "encoding", "endian", "topic", "value", "width">>

Range(s) == {s[i] : i \in 1..Len(s)}

\* a string: the quote, the text if there is any, the quote
StrWrites(s) == <<<<34>>>> \o (IF CodePoints(s) = <<>> THEN <<>> ELSE <<CodePoints(s)>>) \o <<<<34>>>>

RECURSIVE JsonWrites(_)
JsonWrites(j) ==
    CASE j.k = "bool" -> <<IF j.b THEN <<116, 114, 117, 101>> ELSE <<102, 97, 108, 115, 101>>>>
      [] j.k = "int" -> <<IF j.n < 0 THEN <<45>> \o Digits(0 - j.n) ELSE Digits(j.n)>>
      [] j.k = "str" -> StrWrites(j.s)
      [] j.k = "arr" ->
            <<<<91>>>>
            \o Concat([i \in 1..Len(j.items) |->
                          (IF i = 1 THEN <<>> ELSE <<<<44>>>>) \o JsonWrites(j.items[i])])
            \o <<<<93>>>>
      [] j.k = "obj" /\ DOMAIN j.f \subseteq Range(KeyOrder) ->
            LET keys == SelectSeq(KeyOrder, LAMBDA key : key \in DOMAIN j.f)
            IN <<<<123>>>>
               \o Concat([i \in 1..Len(keys) |->
                             (IF i = 1 THEN <<>> ELSE <<<<44>>>>)
                             \o StrWrites(keys[i]) \o <<<<58>>>> \o JsonWrites(j.f[keys[i]])])
               \o <<<<125>>>>

\* the compact JSON text, as ASCII codes
JsonText(j) == Concat(JsonWrites(j))

(***************************************************************************)
(* data.rs: Value::serialize.  The result is the writer after the call,    *)
(* its ok field the Result.                                                *)
(***************************************************************************)
RECURSIVE SerializeTo(_, _)
RECURSIVE SerializeItems(_, _)
SerializeTo(val, w) ==
    CASE val.v = "Bool" -> WriteAll(w, <<IF val.b THEN 1 ELSE 0>>)
      [] val.v = "Int" -> WriteAll(w, IntBytes(val.value, val.endian, val.width))
      [] val.v = "UInt" -> WriteAll(w, IntBytes(val.value, val.endian, val.width))
      [] val.v = "Float" -> WriteAll(w, FloatBytes(val.value, val.endian, val.width))
      [] val.v = "String" -> WriteEach(w, EncodeWrites(val.value, val.encoding))
      [] val.v = "Array" -> SerializeItems(val.items, w)
      [] val.v = "JSON" -> WriteEach(w, JsonWrites(val.doc))

\* a loop that goes on to the next element after a failed one
SerializeItemsLenient(items, w) ==
    IF items = <<>> THEN [w EXCEPT !.ok = TRUE]
    ELSE SerializeItems(Tail(items), SerializeTo(Head(items), w))

\* for value in array { value.serialize(writer)?; } Ok(())
SerializeItems(items, w) ==
    IF items = <<>> THEN [w EXCEPT !.ok = TRUE]
    ELSE LET r == SerializeTo(Head(items), w)
         IN IF r.ok THEN SerializeItems(Tail(items), r) ELSE r

\* val.data().serialize(&mut buf) on the sender's Vec<u8>: the bytes of buf
Serialize(val) == SerializeTo(val, VecWriter).bytes

(***************************************************************************)
(* The documents the config file holds in the model.                       *)
(***************************************************************************)
Entry(topic, data) == JObj([topic |-> JStr(topic), data |-> data])

\* [{"topic":"a","data":true},{"topic":"b","data":{"value":300,"width":"8"}}]
DocTwo ==
    JArr(<<Entry("a", JBool(TRUE)),
           Entry("b", JObj([value |-> JInt(300), width |-> JStr("8")]))>>)

\* [{"topic":"a","data":{"value":-1,"width":"16","endian":"LittleEndian"}}]
DocOne ==
    JArr(<<Entry("a", JObj([value |-> JInt(-1), width |-> JStr("16"),
                            endian |-> JStr("LittleEndian")]))>>)

\* Cap + 1 entries, so that one tick overfills the request channel
DocBig ==
    JArr([i \in 1..(Cap + 1) |->
             Entry(IF i % 2 = 1 THEN "a" ELSE "b", JObj([value |-> JInt(i), width |-> JStr("8")]))])

BaseDocs == <<DocTwo, DocOne, JInvalid, DocBig>>

\* what the environment writes into the file while the simulator runs
EnvDocs == 1..3

BigDocId == Len(BaseDocs)

\* data values of every shape, each to be the data of a one-entry document
CaseData ==
    <<JBool(TRUE),
      JObj([value |-> JInt(5)]),
      JObj([value |-> JInt(-5)]),
      JObj([value |-> JFloat(3, -1)]),
      JObj([value |-> JStr("A")]),
      JArr(<<JBool(TRUE), JObj([value |-> JInt(1), width |-> JStr("8")])>>),
      JArr(<<>>),
      JInt(5),
      JStr("hi"),
      JObj([value |-> JBool(TRUE)]),
      JObj([topic |-> JInt(1)]),
      JObj([value |-> JBigInt(1, 64)]),
      JObj([value |-> JInt(5), width |-> JInt(7)]),
      JObj([value |-> JInt(5), width |-> JInt(8)]),
      JObj([value |-> JInt(-5), endian |-> JStr("Middle")]),
      JObj([value |-> JInt(5), endian |-> JBool(TRUE)]),
      JObj([value |-> JStr("A"), encoding |-> JStr("UTF32")]),
      JObj([value |-> JInt(300), width |-> JStr("16"), endian |-> JStr("LittleEndian")]),
      JObj([value |-> JStr("hi"), encoding |-> JStr("UTF16BE")])>>

CaseDocs == [i \in 1..Len(CaseData) |-> JArr(<<Entry("a", CaseData[i])>>)]

Docs == BaseDocs \o CaseDocs

\* the documents of CaseData, and the one that is not JSON
CaseDocIds == {d \in 1..Len(Docs) : d > Len(BaseDocs) \/ Docs[d] = JInvalid}

(***************************************************************************)
(* main.rs: the state of the three tasks, of main and of the file.         *)
(***************************************************************************)
VARIABLES
    fileExists,    \* fs::metadata(&path) succeeds
    fileMtime,     \* meta.modified()
    fileDoc,       \* index into Docs of the file's content
    wPc,           \* data_watcher: "meta", "read", "tick", "err", "panic"
    modified,      \* data_watcher: let mut modified
    last_mod,      \* data_watcher: let last_mod (0 outside the loop body)
    failedAt,      \* history: last_mod of the parse failures since the last load
    cell,          \* the value of watch::channel(vec![])
    sPc,           \* sender: "borrow", "send", "tick", "panic"
    vals,          \* sender: let vals = rx.borrow().clone()
    idx,           \* sender: position of `for val in vals`
    chan,          \* the request channel of EventLoop::new(opts, 10)
    ePc,           \* eventloop_task: "poll", "sleep", "panic"
    sleepLeft,     \* seconds left of sleep(Duration::from_secs(3))
    mPc,           \* main: "select", "exited"
    report,        \* main: the task named by the bail! that ended the process
    firstDead,     \* history: the task that terminated first
    tickSent,      \* history: the messages submitted since the last snapshot
    ticks,         \* history: snapshots taken
    replacements,  \* history: datasets the watcher put into the cell
    serSelf,       \* Value::serialize called on its own: &self
    writer,        \* Value::serialize called on its own: writer: &mut W
    serResult      \* Value::serialize called on its own: "none", "Ok", "Err"

fileVars == <<fileExists, fileMtime, fileDoc>>
watcherVars == <<wPc, modified, last_mod, failedAt>>
senderVars == <<sPc, vals, idx, tickSent, ticks>>
eventloopVars == <<ePc, sleepLeft>>
mainVars == <<mPc, report>>
serVars == <<serSelf, writer, serResult>>
vars == <<fileVars, watcherVars, cell, senderVars, chan, eventloopVars, mainVars,
          firstDead, replacements, serVars>>

Terminated(pc) == pc \in {"err", "panic"}

\* the tokio runtime is dropped when main returns: no task runs after that
Running == mPc = "select"

\* a receiver that is gone as soon as the eventloop task, too, has ended
RxAliveWithEventloop == ~Terminated(sPc) /\ ~Terminated(ePc)

\* the watch::Receiver lives in the sender's future
RxAlive == ~Terminated(sPc)

\* the request channel's receiver lives in the EventLoop, in eventloop_task's future
ChanOpen == ~Terminated(ePc)

NoteDead(task) == firstDead' = IF firstDead = "none" THEN task ELSE firstDead

\* Publish::new(val.topic(), QoS::AtLeastOnce, buf)
Msg(val) == [topic |-> val.topic, payload |-> Serialize(val.data)]

Msgs(dataset) == [i \in 1..Len(dataset) |-> Msg(dataset[i])]

\* a cell that starts with a default entry in it
InitialCellDefault == <<[topic |-> "a", data |-> [v |-> "Bool", b |-> FALSE]]>>

\* watch::channel(vec![]): the cell starts as the empty dataset
InitialCell == <<>>

\* the state main sets up before it spawns the three tasks
InitTasks ==
    /\ fileExists = TRUE
    /\ fileMtime = 1
    /\ wPc = "meta"
    /\ modified = 0
    /\ last_mod = 0
    /\ failedAt = 0
    /\ cell = InitialCell
    /\ sPc = "borrow"
    /\ vals = <<>>
    /\ idx = 1
    /\ chan = <<>>
    /\ ePc = "poll"
    /\ sleepLeft = 0
    /\ mPc = "select"
    /\ report = "none"
    /\ firstDead = "none"
    /\ tickSent = <<>>
    /\ ticks = 0
    /\ replacements = 0

\* the simulator started on one of docs; serialize is called by the sender only
InitWith(docs) ==
    /\ InitTasks
    /\ fileDoc \in docs
    /\ serSelf = [v |-> "Bool", b |-> FALSE]
    /\ writer = VecWriter
    /\ serResult = "none"

Init == InitWith(EnvDocs)

(***************************************************************************)
(* The file system: the config file is rewritten, touched or deleted.      *)
(***************************************************************************)
FileWriteAt(times) ==
    /\ Running
    /\ \E t \in times, d \in EnvDocs :
        /\ ~(fileExists /\ t = fileMtime /\ d = fileDoc)
        /\ fileExists' = TRUE
        /\ fileMtime' = t
        /\ fileDoc' = d
    /\ UNCHANGED <<watcherVars, cell, senderVars, chan, eventloopVars, mainVars,
                   firstDead, replacements, serVars>>

\* any modification time: a file can be put in place with an older time
FileWrite == FileWriteAt(1..MaxMtime)

\* a write stamped by the clock: the modification time does not go back
FileWriteForward == FileWriteAt(fileMtime..MaxMtime)

FileDelete ==
    /\ Running
    /\ fileExists
    /\ fileExists' = FALSE
    /\ UNCHANGED <<fileMtime, fileDoc, watcherVars, cell, senderVars, chan, eventloopVars,
                   mainVars, firstDead, replacements, serVars>>

(***************************************************************************)
(* data_watcher                                                            *)
(***************************************************************************)
\* fs::metadata(&path).await? fails: the task returns the error
WatcherMetaErr ==
    /\ Running
    /\ wPc = "meta"
    /\ ~fileExists
    /\ wPc' = "err"
    /\ NoteDead("Watcher")
    /\ UNCHANGED <<failedAt, fileVars, modified, last_mod, cell, senderVars, chan, eventloopVars,
                   mainVars, replacements, serVars>>

\* a gate that also lets an unchanged modification time through
NewerOrEqual(recorded, seen) == recorded <= seen

\* a gate that misses the modification time right after the recorded one
NewerByTwo(recorded, seen) == recorded + 1 < seen

\* the gate of the reload: if modified < last_mod
Newer(recorded, seen) == recorded < seen

\* metadata read; not newer: straight to interval.tick(); newer: on to the read
WatcherMeta ==
    /\ Running
    /\ wPc = "meta"
    /\ fileExists
    /\ last_mod' = fileMtime
    /\ wPc' = IF Newer(modified, fileMtime) THEN "read" ELSE "tick"
    /\ UNCHANGED <<failedAt, fileVars, modified, cell, senderVars, chan, eventloopVars, mainVars,
                   firstDead, replacements, serVars>>

\* fs::read_to_string fails: continue, which skips interval.tick()
WatcherReadErr ==
    /\ Running
    /\ wPc = "read"
    /\ wPc' = "meta"
    /\ last_mod' = 0
    /\ UNCHANGED <<failedAt, fileVars, modified, cell, senderVars, chan, eventloopVars,
                   mainVars, firstDead, replacements, serVars>>

\* a failed parse that puts the default, empty dataset into the cell
AfterParseErrClears == <<<<>>, modified>>

\* a failed parse that records the modification time it has seen
AfterParseErrRecords == <<cell, last_mod>>

\* what a failed parse leaves in the cell and in modified
AfterParseErr == <<cell, modified>>

\* a send that waits until the receiver has taken the value before
SendOkWhenSeen == RxAlive /\ vals = cell

\* tx.send(vals) is Ok whenever a receiver is left: it replaces the value in
\* the cell and does not wait for the receiver to have seen the one before
SendOk == RxAlive

\* read and parse succeed, tx.send(vals) succeeds
WatcherReload ==
    /\ Running
    /\ wPc = "read"
    /\ fileExists
    /\ Parse(Docs[fileDoc]).ok
    /\ SendOk
    /\ cell' = Parse(Docs[fileDoc]).vals
    /\ modified' = last_mod
    /\ failedAt' = 0
    /\ replacements' = replacements + 1
    /\ wPc' = "tick"
    /\ UNCHANGED <<fileVars, last_mod, senderVars, chan, eventloopVars, mainVars, firstDead,
                   serVars>>

\* read and parse succeed, tx.send(vals) returns Err as no receiver is left:
\* expect("Watchers died") panics
WatcherSendPanic ==
    /\ Running
    /\ wPc = "read"
    /\ fileExists
    /\ Parse(Docs[fileDoc]).ok
    /\ ~RxAlive
    /\ wPc' = "panic"
    /\ NoteDead("Watcher")
    /\ UNCHANGED <<failedAt, fileVars, modified, last_mod, cell, senderVars, chan, eventloopVars,
                   mainVars, replacements, serVars>>

\* read succeeds, parse fails: log::debug! and on to interval.tick()
WatcherParseErr ==
    /\ Running
    /\ wPc = "read"
    /\ fileExists
    /\ ~Parse(Docs[fileDoc]).ok
    /\ cell' = AfterParseErr[1]
    /\ modified' = AfterParseErr[2]
    /\ failedAt' = last_mod
    /\ wPc' = "tick"
    /\ UNCHANGED <<fileVars, last_mod, senderVars, chan, eventloopVars, mainVars,
                   firstDead, replacements, serVars>>

\* interval.tick().await
WatcherTick ==
    /\ Running
    /\ wPc = "tick"
    /\ wPc' = "meta"
    /\ last_mod' = 0
    /\ UNCHANGED <<failedAt, fileVars, modified, cell, senderVars, chan, eventloopVars,
                   mainVars, firstDead, replacements, serVars>>

(***************************************************************************)
(* sender                                                                  *)
(***************************************************************************)
\* a read that is not atomic: entries of the previous snapshot, then the cell's
BorrowTorn == [i \in 1..Len(cell) |-> IF i <= Len(vals) THEN vals[i] ELSE cell[i]]

\* what rx.borrow().clone() returns: the value in the cell, read under its lock
Borrow == cell

\* the loop head: the snapshot of this tick
SenderBorrow ==
    /\ Running
    /\ sPc = "borrow"
    /\ ticks < MaxTicks
    /\ vals' = Borrow
    /\ idx' = 1
    /\ tickSent' = <<>>
    /\ ticks' = ticks + 1
    /\ sPc' = IF Len(Borrow) = 0 THEN "tick" ELSE "send"
    /\ UNCHANGED <<fileVars, watcherVars, cell, chan, eventloopVars, mainVars,
                   firstDead, replacements, serVars>>

\* a channel without a bound
CanSendUnbounded == ChanOpen

\* the channel takes a request when it is open and holds fewer than Cap
CanSend == ChanOpen /\ Len(chan) < Cap

\* a loop that runs over the snapshot from its end
CurrentReversed == vals[Len(vals) + 1 - idx]

\* the entry the loop body is at
Current == vals[idx]

\* where the for loop goes after the entry at idx
AfterEntry == IF idx = Len(vals) THEN "tick" ELSE "send"

\* one pass of the loop body: serialize, Publish::new, sink.send(..).await
SenderSend ==
    /\ Running
    /\ sPc = "send"
    /\ CanSend
    /\ chan' = Append(chan, Msg(Current))
    /\ tickSent' = Append(tickSent, Msg(Current))
    /\ idx' = idx + 1
    /\ sPc' = AfterEntry
    /\ UNCHANGED <<fileVars, watcherVars, cell, vals, ticks, eventloopVars, mainVars,
                   firstDead, replacements, serVars>>

\* a failed submission that is skipped, the loop going on with the next entry
AfterSendErrSkip == AfterEntry

\* where the task goes when sink.send returns Err
AfterSendErr == "panic"

\* sink.send(..).await returns Err as the channel is closed:
\* expect("Eventloop rx seems to be dead.") panics
SenderSendPanic ==
    /\ Running
    /\ sPc = "send"
    /\ ~ChanOpen
    /\ sPc' = AfterSendErr
    /\ firstDead' = IF Terminated(sPc') /\ firstDead = "none" THEN "Sender" ELSE firstDead
    /\ idx' = IF Terminated(sPc') THEN idx ELSE idx + 1
    /\ UNCHANGED <<fileVars, watcherVars, cell, vals, tickSent, ticks, chan, eventloopVars,
                   mainVars, replacements, serVars>>

\* interval.tick().await
SenderTick ==
    /\ Running
    /\ sPc = "tick"
    /\ sPc' = "borrow"
    /\ UNCHANGED <<fileVars, watcherVars, cell, vals, idx, tickSent, ticks, chan,
                   eventloopVars, mainVars, firstDead, replacements, serVars>>

(***************************************************************************)
(* eventloop_task                                                          *)
(***************************************************************************)
\* eventloop.poll() takes the next request off the channel: Ok(p)
EventloopPollOk ==
    /\ Running
    /\ ePc = "poll"
    /\ chan # <<>>
    /\ chan' = Tail(chan)
    /\ UNCHANGED <<fileVars, watcherVars, cell, senderVars, eventloopVars, mainVars,
                   firstDead, replacements, serVars>>

\* a connection error that is returned from the task (poll().await?)
AfterPollErrReturns == "err"

\* where the task goes when poll returns Err(e)
AfterPollErr == "sleep"

\* eventloop.poll() returns Err(e): log::error! and sleep 3 s
EventloopPollErr ==
    /\ Running
    /\ ePc = "poll"
    /\ ePc' = AfterPollErr
    /\ sleepLeft' = BackoffSecs
    /\ firstDead' = IF Terminated(ePc') /\ firstDead = "none" THEN "Eventloop" ELSE firstDead
    /\ UNCHANGED <<fileVars, watcherVars, cell, senderVars, chan, mainVars, replacements, serVars>>

\* the 3 s of the sleep pass
SleepElapses ==
    /\ Running
    /\ ePc = "sleep"
    /\ sleepLeft > 0
    /\ sleepLeft' = 0
    /\ UNCHANGED <<fileVars, watcherVars, cell, senderVars, chan, ePc, mainVars,
                   firstDead, replacements, serVars>>

\* the sleep is over: back to the loop head
EventloopWake ==
    /\ Running
    /\ ePc = "sleep"
    /\ sleepLeft = 0
    /\ ePc' = "poll"
    /\ UNCHANGED <<fileVars, watcherVars, cell, senderVars, chan, sleepLeft, mainVars,
                   firstDead, replacements, serVars>>

\* eventloop.poll() panics: the task ends with a JoinError and its future,
\* the EventLoop and the channel's receiver in it, is dropped
EventloopPanic ==
    /\ Running
    /\ ePc = "poll"
    /\ ePc' = "panic"
    /\ NoteDead("Eventloop")
    /\ UNCHANGED <<fileVars, watcherVars, cell, senderVars, chan, sleepLeft, mainVars,
                   replacements, serVars>>

(***************************************************************************)
(* main: select! over the three JoinHandles                                *)
(***************************************************************************)
TaskPc(task) ==
    CASE task = "Watcher" -> wPc
      [] task = "Sender" -> sPc
      [] task = "Eventloop" -> ePc

Tasks == {"Watcher", "Sender", "Eventloop"}

\* a main that joins all three tasks before it returns
ReadyWhenAllDone == IF \A task \in Tasks : Terminated(TaskPc(task)) THEN Tasks ELSE {}

\* the branches select! may take: those whose JoinHandle is ready
Ready == {task \in Tasks : Terminated(TaskPc(task))}

\* bail!("... died: {:?}", res)
MainSelect ==
    /\ Running
    /\ \E task \in Ready :
        /\ report' = task
        /\ mPc' = "exited"
    /\ UNCHANGED <<fileVars, watcherVars, cell, senderVars, chan, eventloopVars,
                   firstDead, replacements, serVars>>

\* the steps of the three tasks and of main while the file's metadata can be read
TaskStep ==
    \/ WatcherMeta
    \/ WatcherReadErr
    \/ WatcherReload
    \/ WatcherSendPanic
    \/ WatcherParseErr
    \/ WatcherTick
    \/ SenderBorrow
    \/ SenderSend
    \/ SenderSendPanic
    \/ SenderTick
    \/ EventloopPollOk
    \/ EventloopPollErr
    \/ SleepElapses
    \/ EventloopWake
    \/ EventloopPanic
    \/ MainSelect

Next ==
    \/ FileWrite
    \/ FileDelete
    \/ WatcherMetaErr
    \/ TaskStep

Spec == Init /\ [][Next]_vars

\* the file holds the big document when the simulator starts
InitBig == InitWith({BigDocId})

\* the big document is never rewritten: no second load, no parse failure
NextBig ==
    \/ FileDelete
    \/ WatcherMetaErr
    \/ WatcherMeta
    \/ WatcherReadErr
    \/ WatcherReload
    \/ WatcherTick
    \/ SenderBorrow
    \/ SenderSend
    \/ SenderSendPanic
    \/ SenderTick
    \/ EventloopPollOk
    \/ EventloopPollErr
    \/ SleepElapses
    \/ EventloopWake
    \/ EventloopPanic
    \/ MainSelect

SpecBig == InitBig /\ [][NextBig]_vars

\* the big document is in the file at the start and the file is rewritten, with
\* all three tasks at work: none of them ends
WatcherStep ==
    \/ WatcherMeta
    \/ WatcherReadErr
    \/ WatcherReload
    \/ WatcherParseErr
    \/ WatcherTick

NextBlocked ==
    \/ FileWrite
    \/ WatcherStep
    \/ SenderBorrow
    \/ SenderSend
    \/ SenderTick
    \/ EventloopPollOk
    \/ EventloopPollErr
    \/ SleepElapses
    \/ EventloopWake

SpecBlocked == InitBig /\ [][NextBlocked]_vars

\* the file holds one of the documents of CaseData, or no JSON, and is not rewritten
InitCases == InitWith(CaseDocIds)

NextCases ==
    \/ WatcherParseErr
    \/ NextBig

SpecCases == InitCases /\ [][NextCases]_vars

(***************************************************************************)
(* Value::serialize called on its own, on a value and a writer of choice.  *)
(***************************************************************************)
\* the integers serialize is called on: around the edges of the widths
TestInts ==
    {0, 1, 127, 128, 255, 256, 300, 32767, 32768, 65535, 65536, 2147483647,
     -1, -2, -128, -129, -32768, -32769, -2147483647}

IntWidths == {8, 16, 32, 64}

\* Value::Int of any i64 and Value::UInt of any u64 the model holds
IntValues ==
    [v : {"Int"}, value : TestInts, endian : EndianNames, width : IntWidths]
    \cup [v : {"UInt"}, value : {n \in TestInts : n >= 0}, endian : EndianNames,
          width : IntWidths]

Arr(items) == [v |-> "Array", items |-> items]

\* values of every variant, among them arrays: Array(vec![]) and nested ones
Elements ==
    {[v |-> "Bool", b |-> TRUE],
     [v |-> "UInt", value |-> 258, endian |-> "LittleEndian", width |-> 16],
     [v |-> "Int", value |-> -2, endian |-> "BigEndian", width |-> 8],
     [v |-> "Float", value |-> [m |-> 3, e |-> -1], endian |-> "BigEndian", width |-> 32],
     [v |-> "String", value |-> "hi", encoding |-> "UTF16LE"],
     [v |-> "String", value |-> "", encoding |-> "UTF8"],
     [v |-> "JSON", doc |-> JArr(<<JInt(1), JStr("a")>>)],
     Arr(<<>>),
     Arr(<<[v |-> "Bool", b |-> FALSE], [v |-> "String", value |-> "A", encoding |-> "UTF8"]>>),
     Arr(<<Arr(<<Arr(<<>>), [v |-> "Bool", b |-> TRUE]>>),
           [v |-> "UInt", value |-> 1, endian |-> "BigEndian", width |-> 8]>>)}

ArrayValues == {Arr(items) : items \in {<<>>} \cup (Elements \X Elements)}

InitSerialize ==
    /\ InitTasks
    /\ fileDoc = 1
    /\ serSelf \in IntValues \cup ArrayValues
    /\ \E failAt \in 0..MaxFailAt : writer = Writer(failAt)
    /\ serResult = "none"

\* value.serialize(&mut writer)
SerializeCall ==
    /\ serResult = "none"
    /\ writer' = SerializeTo(serSelf, writer)
    /\ serResult' = IF writer'.ok THEN "Ok" ELSE "Err"
    /\ UNCHANGED <<fileVars, watcherVars, cell, senderVars, chan, eventloopVars, mainVars,
                   firstDead, replacements, serSelf>>

NextSerialize == SerializeCall

SpecSerialize == InitSerialize /\ [][NextSerialize]_vars

(***************************************************************************)
(* Properties of the serializer.                                           *)
(***************************************************************************)
\* the bytes of the writer, least significant first, for the value's endian
BytesLe == IF serSelf.endian = "LittleEndian" THEN writer.bytes ELSE Reverse(writer.bytes)

\* byte i (from 0) of v mod 2^64, for a v within 32 bits: beyond the fourth
\* byte there is only the sign
ByteOf(v, i) == IF i < 4 THEN (v \div 256^i) % 256 ELSE IF v < 0 THEN 255 ELSE 0

\* C11: serialize of an Int or UInt of value v, width W and endian E writes
\* exactly W/8 bytes, which read in the order E are v mod 2^W (byte by byte,
\* and as a number for the widths 8 and 16); width 8 writes the one byte
\* v mod 256 whatever the endian.
C11_IntWidthTruncation ==
    (serResult = "Ok" /\ serSelf.v \in {"Int", "UInt"}) =>
        /\ Len(writer.bytes) = serSelf.width \div 8
        /\ \A i \in 1..(serSelf.width \div 8) : BytesLe[i] = ByteOf(serSelf.value, i - 1)
        /\ serSelf.width = 8 => writer.bytes = <<serSelf.value % 256>>
        /\ serSelf.width = 16 => BytesLe[1] + 256 * BytesLe[2] = serSelf.value % 65536

\* Int -1 at width 16, LittleEndian, has been written as 0xFF 0xFF
C11_Witness ==
    /\ serResult = "Ok"
    /\ serSelf = [v |-> "Int", value |-> -1, endian |-> "LittleEndian", width |-> 16]
    /\ writer.bytes = <<255, 255>>

\* what element i of the array serializes to on its own
Own(i) == Serialize(serSelf.items[i])

IsPrefix(s, u) == Len(s) <= Len(u) /\ s = SubSeq(u, 1, Len(s))

\* C12: serialize of an Array writes the bytes its elements serialize to on
\* their own, one after the other in element order, and nothing else; when a
\* write fails, what was written is a prefix of that and no write follows.
C12_ArrayConcatenation ==
    serSelf.v = "Array" =>
        LET full == Concat([i \in 1..Len(serSelf.items) |-> Own(i)])
        IN /\ serResult = "Ok" => writer.bytes = full
           /\ serResult = "Err" => (IsPrefix(writer.bytes, full) /\ writer.calls = writer.failAt)

\* the third write of the first element has failed: its first two writes are
\* in the writer and nothing of the nested array after it
C12_Witness ==
    /\ serResult = "Err"
    /\ serSelf = Arr(<<[v |-> "String", value |-> "hi", encoding |-> "UTF16LE"],
                      Arr(<<[v |-> "Bool", b |-> FALSE],
                            [v |-> "String", value |-> "A", encoding |-> "UTF8"]>>)>>)
    /\ writer.bytes = <<255, 254, 104, 0>>
    /\ writer.calls = 3

(***************************************************************************)
(* Properties of the parser, on the one-entry documents of CaseData.       *)
(***************************************************************************)
\* the data of the entry in the file, and whether a field of it is bad
FileData == Docs[fileDoc].items[1].f.data

MismatchFile == Docs[fileDoc].k = "arr" /\ BadField(FileData)

\* C13 as stated: content whose data has a field no variant takes is a
\* ParseError, and the watcher replaces nothing for it.
C13_FieldMismatchFails == MismatchFile => (cell = <<>> /\ replacements = 0)

\* C13 as amended: such data matches no typed variant and is taken by the
\* catch-all: the parse succeeds, the watcher replaces the dataset with the
\* entry holding the object as opaque JSON, and its JSON text is published.
C13_FieldMismatchIsOpaque ==
    /\ [][(wPc = "read" /\ MismatchFile /\ wPc' = "tick") =>
            /\ replacements' = replacements + 1
            /\ cell' = <<[topic |-> "a", data |-> [v |-> "JSON", doc |-> FileData]]>>]_vars
    /\ [](MismatchFile =>
            \A i \in 1..Len(chan) : chan[i] = [topic |-> "a", payload |-> JsonText(FileData)])

\* {"value": 5, "width": 7} has been loaded and published as its JSON text
C13_Witness ==
    /\ replacements = 1
    /\ FileData = JObj([value |-> JInt(5), width |-> JInt(7)])
    /\ chan # <<>>
    /\ chan[1].payload = JsonText(FileData)

\* the object {"value": x} and nothing else
OnlyValue(d, kind) == d.k = "obj" /\ DOMAIN d.f = {"value"} /\ d.f.value.k = kind

\* the integer literals that fit 64 bits, and all of them
FitsNonNegative(num) == num.k = "int" /\ num.n >= 0

NonNegativeLiteral(num) ==
    \/ FitsNonNegative(num)
    \/ num.k = "float" /\ num.lit = "integer" /\ num.m > 0

\* data that no typed variant takes
NoTypedShape(d) ==
    \/ d.k \in {"int", "float", "str"}
    \/ d.k = "obj" /\ "value" \notin DOMAIN d.f
    \/ d.k = "obj" /\ "value" \in DOMAIN d.f /\ d.f.value.k \in {"bool", "arr", "obj"}
    \/ BadField(d)

\* the resolutions of C14 that do not depend on the size of an integer literal
ResolvesInOrder(d, val) ==
    /\ d.k = "bool" => val = [v |-> "Bool", b |-> d.b]
    /\ (OnlyValue(d, "int") /\ d.f.value.n < 0) =>
            val = [v |-> "Int", value |-> d.f.value.n, endian |-> "BigEndian", width |-> 64]
    /\ (OnlyValue(d, "float") /\ d.f.value.lit = "decimal") => val.v = "Float"
    /\ OnlyValue(d, "str") =>
            val = [v |-> "String", value |-> d.f.value.s, encoding |-> "UTF8"]
    /\ d.k = "arr" => (val.v = "Array" /\ Len(val.items) = Len(d.items))
    /\ NoTypedShape(d) => val = [v |-> "JSON", doc |-> d]

\* C14 as stated: the first variant in the order Bool, UInt, Int, Float,
\* String, Array, opaque JSON that the data fits is the one it resolves to;
\* {"value": n} with n any non-negative integer literal resolves to UInt, and
\* data no typed variant takes resolves to opaque JSON.
C14_VariantResolutionOrder ==
    cell # <<>> =>
        /\ ResolvesInOrder(FileData, cell[1].data)
        /\ (FileData.k = "obj" /\ DOMAIN FileData.f = {"value"}
              /\ NonNegativeLiteral(FileData.f.value)) => cell[1].data.v = "UInt"

\* C14 as amended: the same, with {"value": n} resolving to UInt for the
\* non-negative integer literals n that fit 64 bits; a larger one is read as
\* an f64 and resolves to Float.
C14_ResolutionOrderWithin64Bits ==
    cell # <<>> =>
        /\ ResolvesInOrder(FileData, cell[1].data)
        /\ (OnlyValue(FileData, "int") /\ FitsNonNegative(FileData.f.value)) =>
                cell[1].data = [v |-> "UInt", value |-> FileData.f.value.n,
                                endian |-> "BigEndian", width |-> 64]
        /\ (OnlyValue(FileData, "float") /\ FileData.f.value.lit = "integer") =>
                cell[1].data.v = "Float"

\* {"value": 5} has been loaded as a UInt and published as its 8 bytes
C14_Witness ==
    /\ cell # <<>>
    /\ FileData = JObj([value |-> JInt(5)])
    /\ cell[1].data.v = "UInt"
    /\ chan # <<>>
    /\ chan[1].payload = <<0, 0, 0, 0, 0, 0, 0, 5>>

(***************************************************************************)
(* Properties of the watcher.                                              *)
(***************************************************************************)
\* the content the file holds does not parse
Malformed == fileExists /\ ~Parse(Docs[fileDoc]).ok

\* C1: a poll that reads content which fails to parse leaves the cell as it
\* was, does not end the watcher task, and goes on to the next poll.
C1_ParseFailureKeepsDataset ==
    [][/\ (wPc = "read" /\ Malformed /\ wPc' # "read") =>
            (cell' = cell /\ wPc' \in {"tick", "meta"})
       /\ (wPc = "tick" /\ wPc' # "tick") => wPc' = "meta"]_vars

\* the watcher waits for its next poll after a failed parse, which alone leaves
\* modified < last_mod at the tick, with an earlier dataset still in the cell
C1_Witness == wPc = "tick" /\ modified < last_mod /\ Malformed /\ cell # <<>>

\* C15 as stated: a failed read of the content leaves modified and the cell
\* as they were, and the watcher waits on its interval before the next
\* metadata check: every metadata check but the first follows a tick.
C15_ReadFailureWaitsForTick ==
    [][/\ (wPc = "read" /\ wPc' = "meta") => (modified' = modified /\ cell' = cell)
       /\ (wPc # "meta" /\ wPc' = "meta") => wPc = "tick"]_vars

\* C16 as stated: a failed parse of content seen at time T records T, and the
\* content is read again only at a time beyond the one a parse has failed at.
C16_TimestampRecordedOnParseFailure ==
    /\ [][(wPc = "read" /\ Malformed /\ wPc' = "tick") => modified' = last_mod]_vars
    /\ [](wPc = "read" => failedAt < last_mod)

\* C17: a failed parse leaves modified as it was; modified changes only in a
\* load, to the time that load has seen; so every metadata check of a file
\* whose time is beyond modified, malformed or not, goes on to read it.
C17_TimestampUnchangedOnParseFailure ==
    [][/\ (wPc = "read" /\ Malformed /\ wPc' = "tick") => modified' = modified
       /\ modified' # modified =>
            /\ wPc = "read"
            /\ Parse(Docs[fileDoc]).ok
            /\ modified' = last_mod
            /\ cell' = Parse(Docs[fileDoc]).vals
            /\ replacements' = replacements + 1
       /\ (wPc = "meta" /\ wPc' # "meta" /\ fileExists /\ modified < fileMtime) =>
            wPc' = "read"]_vars

\* after a load at time 1 the watcher is about to read, again, malformed
\* content of time 2 that it has failed to parse before
C17_Witness ==
    /\ wPc = "read"
    /\ Malformed
    /\ modified = 1
    /\ last_mod = 2
    /\ failedAt = 2
    /\ cell # <<>>

\* C18 as stated: the watcher task ends only on a failed metadata read.
C18_WatcherEndsOnlyOnMetadataError ==
    [][(~Terminated(wPc) /\ Terminated(wPc')) => (wPc = "meta" /\ ~fileExists)]_vars

\* C18 as amended: the watcher task ends only on a failed metadata read, with
\* the error, or by the panic of expect("Watchers died") when it has parsed
\* newer content and the sender task, the cell's only reader, has ended.
C18_WatcherEndsOnMetadataErrorOrDeadReader ==
    [][(~Terminated(wPc) /\ Terminated(wPc')) =>
            \/ wPc = "meta" /\ ~fileExists /\ wPc' = "err"
            \/ /\ wPc = "read"
               /\ modified < last_mod
               /\ Parse(Docs[fileDoc]).ok
               /\ Terminated(sPc)
               /\ wPc' = "panic"
               /\ cell' = cell]_vars

\* the watcher has panicked after the sender, with main still in its select!
C18_Witness == Running /\ wPc = "panic" /\ sPc = "panic" /\ fileExists

(***************************************************************************)
(* Properties of the sender.                                               *)
(***************************************************************************)
\* the datasets the file's documents parse to, and the empty initial one
Snapshots ==
    {<<>>} \cup {Parse(Docs[d]).vals : d \in {e \in 1..Len(BaseDocs) : Parse(Docs[e]).ok}}

\* C2: the snapshot of a tick is the whole dataset the cell holds at the read,
\* never a mix of two, and every message of the tick is taken from it, also
\* when the watcher replaces the cell during the tick.
C2_SnapshotAtomicity ==
    [][/\ ticks' # ticks => (vals' = cell /\ vals' \in Snapshots)
       /\ ticks' = ticks => vals' = vals
       /\ Len(chan') > Len(chan) => chan' = Append(chan, Msg(vals[idx]))]_vars

\* the sender is in the middle of a tick and the cell has been replaced since
C2_Witness ==
    /\ sPc = "send"
    /\ idx > 1
    /\ cell # vals
    /\ cell # <<>>
    /\ chan # <<>>
    /\ chan[Len(chan)] = Msg(vals[idx - 1])

\* C3: a tick submits one message per entry of its snapshot, in the order of
\* the snapshot, and the next snapshot is taken only after the last of them.
C3_PublishingOrder ==
    /\ idx \in 1..(Len(vals) + 1)
    /\ tickSent = SubSeq(Msgs(vals), 1, idx - 1)
    /\ sPc = "send" => idx <= Len(vals)
    /\ sPc \in {"tick", "borrow"} => tickSent = Msgs(vals)

\* the second tick is through, with the two messages of DocTwo in order
C3_Witness ==
    /\ sPc = "tick"
    /\ ticks = 2
    /\ Len(vals) = 2
    /\ tickSent = <<[topic |-> "a", payload |-> <<1>>], [topic |-> "b", payload |-> <<44>>]>>

\* C4: the cell is replaced only by a poll that saw a modification time newer
\* than the recorded one, and that poll records it: polls of a file whose
\* modification time is not newer than the recorded one replace nothing.
C4_WatcherIdempotence ==
    [][(replacements' # replacements \/ cell' # cell) =>
            /\ wPc = "read"
            /\ modified < last_mod
            /\ modified' = last_mod
            /\ replacements' = replacements + 1]_vars

\* after a load the watcher has polled a file with an older modification time
\* and waits for the next poll, with nothing replaced
C4_Witness ==
    /\ wPc = "tick"
    /\ 0 < last_mod
    /\ last_mod < modified
    /\ replacements = 1

\* C6: when the submission of an entry fails the sender task ends there: no
\* later entry is submitted and no further tick starts.
C6_FailFast ==
    [][/\ (sPc = "send" /\ ~ChanOpen /\ <<sPc, idx>>' # <<sPc, idx>>) => Terminated(sPc')
       /\ Terminated(sPc) => (senderVars' = senderVars /\ Len(chan') <= Len(chan))]_vars

\* the sender has ended at the first of two entries
C6_Witness == sPc = "panic" /\ idx = 1 /\ Len(vals) = 2 /\ tickSent = <<>>

\* C19: nothing is in the cell, in a snapshot or in the channel before the
\* watcher's first load; the cell changes only to the parse of the file's
\* content, in a load; a snapshot is the cell's value when it is taken; and
\* every message submitted carries the topic and the serialized data of the
\* entry of the snapshot the tick is at, so every message in the channel is
\* that of an entry of a dataset parsed from a document of the file.
C19_MessageProvenance ==
    /\ [](replacements = 0 => (cell = <<>> /\ vals = <<>> /\ chan = <<>> /\ tickSent = <<>>))
    /\ [](\A i \in 1..Len(chan) :
            \E s \in Snapshots : \E n \in 1..Len(s) :
                chan[i] = [topic |-> s[n].topic, payload |-> Serialize(s[n].data)])
    /\ [][/\ cell' # cell =>
                /\ wPc = "read"
                /\ Parse(Docs[fileDoc]).ok
                /\ cell' = Parse(Docs[fileDoc]).vals
                /\ replacements' = replacements + 1
          /\ vals' # vals => (ticks' = ticks + 1 /\ vals' = cell /\ replacements > 0)
          /\ Len(chan') > Len(chan) =>
                /\ idx \in 1..Len(vals)
                /\ chan' = Append(chan, [topic |-> vals[idx].topic,
                                         payload |-> Serialize(vals[idx].data)])]_vars

\* a message of the first dataset loaded, DocTwo's, is still in the channel
\* after the watcher has loaded DocOne
C19_Witness ==
    /\ replacements = 2
    /\ cell = Parse(DocOne).vals
    /\ chan # <<>>
    /\ chan[1] = [topic |-> "b", payload |-> <<44>>]

(***************************************************************************)
(* Properties of the tasks together.                                       *)
(***************************************************************************)
\* the sender is suspended in sink.send on the full channel
Blocked == sPc = "send" /\ ChanOpen /\ Len(chan) = Cap

\* C20: the watcher always has a step to take, and the load of content that
\* parses is one when it is at the read, whatever the sender and the
\* eventloop are at, also with the sender suspended on the full channel or the
\* eventloop in its backoff; its steps touch nothing of the other two tasks
\* and its load overwrites the cell, leaving the sender's snapshot alone; the
\* sender's next snapshot is what the cell holds then, the latest written.
C20_WatcherNeverBlocked ==
    /\ []((Running /\ ~Terminated(wPc)) => ENABLED WatcherStep)
    /\ []((Running /\ wPc = "read" /\ fileExists /\ Parse(Docs[fileDoc]).ok /\ ~Terminated(sPc))
            => ENABLED WatcherReload)
    /\ [][/\ (watcherVars' # watcherVars \/ cell' # cell) =>
                (senderVars' = senderVars /\ chan' = chan /\ eventloopVars' = eventloopVars)
          /\ (Blocked /\ cell' # cell) => (cell' = Parse(Docs[fileDoc]).vals /\ Blocked')
          /\ ticks' # ticks => vals' = cell]_vars

\* the sender is suspended on the full channel in the tick of the big dataset,
\* the eventloop is in its backoff, and the watcher has replaced the dataset
C20_Witness ==
    /\ Blocked
    /\ ePc = "sleep"
    /\ Len(vals) = Cap + 1
    /\ replacements = 2
    /\ cell # vals
    /\ wPc = "tick"

(***************************************************************************)
(* Fair scheduling: the tokio runtime runs every task that can make a step *)
(* (main's select!, the watcher's metadata read and interval tick), and a  *)
(* read of the file's content that is tried again and again succeeds.      *)
(***************************************************************************)
FairMain == WF_vars(MainSelect)

FairWatcher ==
    /\ WF_vars(WatcherMeta \/ WatcherTick)
    /\ SF_vars(WatcherReload)

\* the same system with a file whose modification time only advances
NextClock ==
    \/ FileWriteForward
    \/ FileDelete
    \/ WatcherMetaErr
    \/ TaskStep

FairSpec == Init /\ [][NextClock]_vars /\ FairMain

\* and with a file that stays in place: its metadata can always be read
NextForward ==
    \/ FileWriteForward
    \/ TaskStep

FairSpecForward == Init /\ [][NextForward]_vars /\ FairWatcher /\ FairMain

\* the documents that parse
GoodDocs == {d \in EnvDocs : Parse(Docs[d]).ok}

\* the file holds document d, which parses, with modification time t
FileIs(t, d) == fileExists /\ fileMtime = t /\ fileDoc = d /\ Parse(Docs[d]).ok

\* C5: when the file holds content that parses, with a modification time newer
\* than the recorded one, the watcher eventually puts the parse of that content
\* into the cell and records that time, unless the file changes again or the
\* process exits first; this also covers a file modified between the watcher's
\* metadata read and its content read.
C5_ReloadLiveness ==
    \A t \in 1..MaxMtime : \A d \in GoodDocs :
        (Running /\ FileIs(t, d) /\ modified < t)
            ~> \/ (cell = Parse(Docs[d]).vals /\ modified = t)
               \/ ~FileIs(t, d)
               \/ ~Running

\* the second load: the file's content of time 2 is in the cell, and recorded
C5_Witness ==
    /\ Running
    /\ FileIs(2, fileDoc)
    /\ cell = Parse(Docs[fileDoc]).vals
    /\ modified = 2
    /\ replacements = 2

(***************************************************************************)
(* Properties of main.                                                     *)
(***************************************************************************)
AnyTerminated == Terminated(wPc) \/ Terminated(sPc) \/ Terminated(ePc)

\* C7: the process runs as long as none of the three tasks has terminated, and
\* once one has, main can return at once, whatever the other two are doing,
\* and eventually does, with the bail! of a terminated task.
C7_FirstToFinish ==
    /\ [](mPc = "exited" => (AnyTerminated /\ Terminated(TaskPc(report))))
    /\ []((Running /\ AnyTerminated) => ENABLED MainSelect)
    /\ (AnyTerminated ~> mPc = "exited")

\* the process has exited on the watcher's end with the other two tasks still
\* at work and requests left in the channel
C7_Witness ==
    /\ mPc = "exited"
    /\ report = "Watcher"
    /\ sPc = "send"
    /\ ePc = "sleep"
    /\ chan # <<>>

\* C8 as stated: the process reports the task that terminated first.
C8_ReportsFirstTerminated == mPc = "exited" => report = firstDead

(***************************************************************************)
(* Properties of the eventloop task and of the request channel.            *)
(***************************************************************************)
\* C9: a connection error never ends the eventloop task (it never returns an
\* error, so the process never exits on one): the task sleeps the backoff delay
\* in full and then polls again.
C9_ConnectionErrorsNotFatal ==
    /\ [](ePc # "err")
    /\ [](report = "Eventloop" => ePc = "panic")
    /\ [][/\ (ePc = "poll" /\ ePc' = "sleep") => sleepLeft' = BackoffSecs
          /\ (ePc = "sleep" /\ ePc' # "sleep") => (ePc' = "poll" /\ sleepLeft = 0)]_vars

\* the task has slept the whole delay after a connection error and the process
\* is still running
C9_Witness == Running /\ ePc = "sleep" /\ sleepLeft = 0

\* C10: the channel never holds more than Cap requests; a sender at a full
\* channel does not move until the eventloop has taken a request, and then
\* submits the entry it was at; requests leave the channel only at its head.
C10_Backpressure ==
    /\ [](Len(chan) <= Cap)
    /\ [][/\ (sPc = "send" /\ ChanOpen /\ Len(chan) = Cap) =>
                (senderVars' = senderVars /\ chan' \in {chan, Tail(chan)})
          /\ \/ chan' = chan
             \/ chan # <<>> /\ chan' = Tail(chan)
             \/ chan' = Append(chan, Msg(vals[idx])) /\ idx' = idx + 1]_vars

\* the sender was held at entry Cap + 1 by the full channel and has submitted
\* it after the eventloop took the first request
C10_Witness ==
    /\ Len(vals) = Cap + 1
    /\ idx = Cap + 2
    /\ Len(chan) = Cap
    /\ chan = SubSeq(Msgs(vals), 2, Cap + 1)

====
